---- MODULE Spec2Model ----
(***************************************************************************)
(* LCS by dynamic programming: the engine (proj3/lcs.py: lcs_length and    *)
(* reconstruct_lcs, as driven by calculate_lcs_for_pair) and the report    *)
(* writer (write_output.py: write_output), the input loader                 *)
(* (proj3/read_input.py: read_strings) and the driver (proj3/__main__.py:  *)
(* main), which calls the loader and then the writer.                      *)
(*                                                                         *)
(* Python strings are modelled as sequences of one-character strings.      *)
(* Python indexes from 0 and TLA+ sequences from 1: At(s, k) is s[k].      *)
(* The runtime field (time.time() differences) is left out of the metrics  *)
(* tuple and of the report block: it is wall-clock time, not a function of *)
(* the inputs.                                                             *)
(***************************************************************************)
EXTENDS Integers, Sequences, FiniteSets, TLC

VARIABLES
    X, Y,               \* the two sequences handed to the engine
    L,                  \* the DP table of lcs_length
    fi, fj,             \* loop indices i, j of lcs_length
    total_operations,   \* counter of lcs_length
    char_comparisons,   \* counter of lcs_length
    i, j,               \* indices of reconstruct_lcs
    lcs_str,            \* list of emitted characters of reconstruct_lcs
    lcs_string,         \* the string reconstruct_lcs returned
    pc,                 \* position of calculate_lcs_for_pair
    strings,            \* write_output: the mapping, in insertion order
    oom,                \* the ordered pairs whose table allocation fails
    combo, dir,         \* write_output: position of the two nested loops
    metrics_list,       \* write_output: the metrics rows appended so far
    file,               \* the text report: the blocks written so far
    csv_file,           \* the metrics table: every version written, in order
    wpc,                \* position of write_output
    lines,              \* the input file: its lines, as read_strings iterates them
    line_number,        \* read_strings: number of the line the loop is at
    rstrings,           \* read_strings: its dict strings, in insertion order
    error,              \* read_strings: the ValueError raised, if any
    rpc,                \* position of read_strings
    plot,               \* main: args.plot
    mpc,                \* position of main
    exit_status         \* exit status of the process, -1 while it runs

engVars == <<X, Y, L, fi, fj, total_operations, char_comparisons,
             i, j, lcs_str, lcs_string, pc>>
wrVars == <<strings, oom, combo, dir, metrics_list, file, csv_file, wpc>>
rdVars == <<lines, line_number, rstrings, error, rpc>>
mnVars == <<plot, mpc, exit_status>>
vars == <<X, Y, L, fi, fj, total_operations, char_comparisons,
          i, j, lcs_str, lcs_string, pc,
          strings, oom, combo, dir, metrics_list, file, csv_file, wpc,
          lines, line_number, rstrings, error, rpc, plot, mpc, exit_status>>

----------------------------------------------------------------------------
(* Bounds of the model *)

MaxLen == 3
MaxNames == 3
MaxFailures == 1

Alphabet == {"a", "b", "c"}

\* All sequences over S of length at most n
SeqsUpTo(S, n) == UNION {[1..k -> S] : k \in 0..n}

SeqPool == SeqsUpTo(Alphabet, MaxLen)

----------------------------------------------------------------------------
(* Python primitives *)

At(s, k) == s[k + 1]

max(a, b) == IF a >= b THEN a ELSE b

\* reversed() forgotten: the list is joined in traversal order
reversedForgotten(s) == s

\* reversed(lst)
reversed(s) == [k \in 1..Len(s) |-> s[Len(s) + 1 - k]]

----------------------------------------------------------------------------
(* lcs_length *)

\* L = [[0] * (n + 1) for _ in range(m + 1)]
ZeroTable(m, n) == [r \in 0..m |-> [c \in 0..n |-> 0]]

\* total_operations, char_comparisons = 0, 0
LcsLengthStart(x, y) ==
    [L |-> ZeroTable(Len(x), Len(y)), total_operations |-> 0, char_comparisons |-> 0]

\* the mismatch branch looks at the cell above only
CellValueUpOnly(T, x, y, r, c) ==
    IF r = 0 \/ c = 0 THEN 0
    ELSE IF At(x, r - 1) = At(y, c - 1) THEN T[r - 1][c - 1] + 1
    ELSE T[r - 1][c]

\* the value the loop body stores in L[r][c]
CellValue(T, x, y, r, c) ==
    IF r = 0 \/ c = 0 THEN 0
    ELSE IF At(x, r - 1) = At(y, c - 1) THEN T[r - 1][c - 1] + 1
    ELSE max(T[r - 1][c], T[r][c - 1])

\* char_comparisons counts every equality test, not only the matches
IsMatchCellEveryTest(x, y, r, c) ==
    ~(r = 0 \/ c = 0)

\* whether the loop body takes the branch that increments char_comparisons
IsMatchCell(x, y, r, c) ==
    ~(r = 0 \/ c = 0) /\ At(x, r - 1) = At(y, c - 1)

\* total_operations is incremented after the border test, on inner cells only
FillCellInnerOps(s, x, y, r, c) ==
    [L |-> [s.L EXCEPT ![r][c] = CellValue(s.L, x, y, r, c)],
     total_operations |->
        IF r = 0 \/ c = 0 THEN s.total_operations ELSE s.total_operations + 1,
     char_comparisons |->
        IF IsMatchCell(x, y, r, c) THEN s.char_comparisons + 1
        ELSE s.char_comparisons]

\* char_comparisons is incremented before the border test, on every cell
FillCellCountsAll(s, x, y, r, c) ==
    [L |-> [s.L EXCEPT ![r][c] = CellValue(s.L, x, y, r, c)],
     total_operations |-> s.total_operations + 1,
     char_comparisons |-> s.char_comparisons + 1]

\* one execution of the body of the inner loop, at (r, c)
FillCell(s, x, y, r, c) ==
    [L |-> [s.L EXCEPT ![r][c] = CellValue(s.L, x, y, r, c)],
     total_operations |-> s.total_operations + 1,
     char_comparisons |->
        IF IsMatchCell(x, y, r, c) THEN s.char_comparisons + 1
        ELSE s.char_comparisons]

\* the two nested loops from (r, c) on, row by row
RECURSIVE FillFrom(_, _, _, _, _)
FillFrom(s, x, y, r, c) ==
    IF r > Len(x) THEN s
    ELSE IF c > Len(y) THEN FillFrom(s, x, y, r + 1, 0)
    ELSE FillFrom(FillCell(s, x, y, r, c), x, y, r, c + 1)

\* lcs_length(X, Y): the record (L, total_operations, char_comparisons)
lcs_length(x, y) == FillFrom(LcsLengthStart(x, y), x, y, 0, 0)

----------------------------------------------------------------------------
(* reconstruct_lcs *)

\* i, j = len(X), len(Y); lcs_str = []
ReconstructStart(x, y) == [i |-> Len(x), j |-> Len(y), lcs_str |-> <<>>]

\* the tie-break with >= in place of >: a tie moves up
BacktraceStepTieUp(b, T, x, y) ==
    IF At(x, b.i - 1) = At(y, b.j - 1)
    THEN [i |-> b.i - 1, j |-> b.j - 1,
          lcs_str |-> Append(b.lcs_str, At(x, b.i - 1))]
    ELSE IF T[b.i - 1][b.j] >= T[b.i][b.j - 1]
    THEN [b EXCEPT !.i = b.i - 1]
    ELSE [b EXCEPT !.j = b.j - 1]

\* the comparison the wrong way round: the walk follows the smaller neighbour
BacktraceStepSmaller(b, T, x, y) ==
    IF At(x, b.i - 1) = At(y, b.j - 1)
    THEN [i |-> b.i - 1, j |-> b.j - 1,
          lcs_str |-> Append(b.lcs_str, At(x, b.i - 1))]
    ELSE IF T[b.i - 1][b.j] < T[b.i][b.j - 1]
    THEN [b EXCEPT !.i = b.i - 1]
    ELSE [b EXCEPT !.j = b.j - 1]

\* the up move forgets its decrement: on a strictly larger upper neighbour
\* the indices stay where they are
BacktraceStepStuck(b, T, x, y) ==
    IF At(x, b.i - 1) = At(y, b.j - 1)
    THEN [i |-> b.i - 1, j |-> b.j - 1,
          lcs_str |-> Append(b.lcs_str, At(x, b.i - 1))]
    ELSE IF T[b.i - 1][b.j] > T[b.i][b.j - 1]
    THEN b
    ELSE [b EXCEPT !.j = b.j - 1]

\* one execution of the body of the while loop
BacktraceStep(b, T, x, y) ==
    IF At(x, b.i - 1) = At(y, b.j - 1)
    THEN [i |-> b.i - 1, j |-> b.j - 1,
          lcs_str |-> Append(b.lcs_str, At(x, b.i - 1))]
    ELSE IF T[b.i - 1][b.j] > T[b.i][b.j - 1]
    THEN [b EXCEPT !.i = b.i - 1]
    ELSE [b EXCEPT !.j = b.j - 1]

\* while i > 0 and j > 0
LoopCondition(b) == b.i > 0 /\ b.j > 0

RECURSIVE BacktraceFrom(_, _, _, _)
BacktraceFrom(b, T, x, y) ==
    IF LoopCondition(b) THEN BacktraceFrom(BacktraceStep(b, T, x, y), T, x, y)
    ELSE b

\* reconstruct_lcs(L, X, Y): ''.join(reversed(lcs_str))
reconstruct_lcs(T, x, y) == reversed(BacktraceFrom(ReconstructStart(x, y), T, x, y).lcs_str)

\* calculate_lcs_for_pair(seq1, seq2), without the runtime
calculate_lcs_for_pair(seq1, seq2) ==
    LET r == lcs_length(seq1, seq2)
        s == reconstruct_lcs(r.L, seq1, seq2)
    IN  [lcs_string |-> s, total_ops |-> r.total_operations,
         char_comps |-> r.char_comparisons,
         str_len1 |-> Len(seq1), str_len2 |-> Len(seq2), lcs_len |-> Len(s)]

----------------------------------------------------------------------------
(* calculate_lcs_for_pair, step by step *)

\* read_strings is not running
ReaderIdle ==
    /\ lines = <<>>
    /\ line_number = 0
    /\ rstrings = <<>>
    /\ error = [kind |-> "none", key |-> <<>>, line |-> 0]
    /\ rpc = "idle"

\* main is not running: the function under study is called on its own
MainIdle ==
    /\ plot = FALSE
    /\ mpc = "idle"
    /\ exit_status = -1

WriterIdle ==
    /\ strings = <<>>
    /\ oom = {}
    /\ combo = 0
    /\ dir = 0
    /\ metrics_list = <<>>
    /\ file = [exists |-> FALSE, blocks |-> <<>>]
    /\ csv_file = <<>>
    /\ wpc = "idle"

\* the state on entry to the loops of lcs_length(X, Y)
Init ==
    /\ X \in SeqPool
    /\ Y \in SeqPool
    /\ L = LcsLengthStart(X, Y).L
    /\ total_operations = 0
    /\ char_comparisons = 0
    /\ fi = 0
    /\ fj = 0
    /\ i = 0
    /\ j = 0
    /\ lcs_str = <<>>
    /\ lcs_string = <<>>
    /\ pc = "fill"
    /\ WriterIdle
    /\ ReaderIdle
    /\ MainIdle

\* one iteration of the inner loop of lcs_length
LcsLengthStep ==
    /\ pc = "fill"
    /\ fi <= Len(X)
    /\ LET s == FillCell([L |-> L, total_operations |-> total_operations,
                          char_comparisons |-> char_comparisons], X, Y, fi, fj)
       IN  /\ L' = s.L
           /\ total_operations' = s.total_operations
           /\ char_comparisons' = s.char_comparisons
    /\ IF fj < Len(Y) THEN fi' = fi /\ fj' = fj + 1
                      ELSE fi' = fi + 1 /\ fj' = 0
    /\ UNCHANGED <<X, Y, i, j, lcs_str, lcs_string, pc>>
    /\ UNCHANGED wrVars
    /\ UNCHANGED <<rdVars, mnVars>>

\* lcs_length returns and reconstruct_lcs sets up its indices
LcsLengthReturn ==
    /\ pc = "fill"
    /\ fi > Len(X)
    /\ LET b == ReconstructStart(X, Y)
       IN  /\ i' = b.i
           /\ j' = b.j
           /\ lcs_str' = b.lcs_str
    /\ pc' = "backtrace"
    /\ UNCHANGED <<X, Y, L, fi, fj, total_operations, char_comparisons, lcs_string>>
    /\ UNCHANGED wrVars
    /\ UNCHANGED <<rdVars, mnVars>>

\* one iteration of the while loop of reconstruct_lcs
ReconstructStep ==
    /\ pc = "backtrace"
    /\ LoopCondition([i |-> i, j |-> j, lcs_str |-> lcs_str])
    /\ LET b == BacktraceStep([i |-> i, j |-> j, lcs_str |-> lcs_str], L, X, Y)
       IN  /\ i' = b.i
           /\ j' = b.j
           /\ lcs_str' = b.lcs_str
    /\ UNCHANGED <<X, Y, L, fi, fj, total_operations, char_comparisons, lcs_string, pc>>
    /\ UNCHANGED wrVars
    /\ UNCHANGED <<rdVars, mnVars>>

\* the loop of reconstruct_lcs ends and the string is returned
ReconstructReturn ==
    /\ pc = "backtrace"
    /\ ~LoopCondition([i |-> i, j |-> j, lcs_str |-> lcs_str])
    /\ lcs_string' = reversed(lcs_str)
    /\ pc' = "done"
    /\ UNCHANGED <<X, Y, L, fi, fj, total_operations, char_comparisons, i, j, lcs_str>>
    /\ UNCHANGED wrVars
    /\ UNCHANGED <<rdVars, mnVars>>

Next ==
    \/ LcsLengthStep
    \/ LcsLengthReturn
    \/ ReconstructStep
    \/ ReconstructReturn

Spec == Init /\ [][Next]_vars

\* the same, for a program that keeps running: the interpreter executes the
\* next statement of the single thread whenever there is one
FairSpec == Init /\ [][Next]_vars /\ WF_vars(Next)

----------------------------------------------------------------------------
(* write_output *)

\* the names the mappings are built from, in insertion order
NameList == <<<<"s", "2">>, <<"s", "1">>, <<"x">>, <<"s", "1", "0">>, <<"y">>>>

\* the sequences the mappings are built from
WriterSeqs == {<<>>, <<"a", "b">>, <<"b", "a", "a">>}

\* the mappings of n named sequences: items() as a sequence of <<name, seq>>
Mappings(n) == {[k \in 1..n |-> <<NameList[k], v[k]>>] : v \in [1..n -> WriterSeqs]}

\* the ordered pairs of distinct names of a mapping
OrderedPairs(d) ==
    {<<d[q[1]][1], d[q[2]][1]>> : q \in {q \in (1..Len(d)) \X (1..Len(d)) : q[1] # q[2]}}

\* itertools.combinations(range(1, n + 1), 2) from <<a, b>> on, as a sequence
RECURSIVE CombinationsFrom(_, _, _)
CombinationsFrom(a, b, n) ==
    IF a >= n THEN <<>>
    ELSE IF b > n THEN CombinationsFrom(a + 1, a + 2, n)
    ELSE <<<<a, b>>>> \o CombinationsFrom(a, b + 1, n)

\* combinations(strings.items(), 2), as pairs of positions in items()
combinations(d) == CombinationsFrom(1, 2, Len(d))

\* the inner list holds the given order twice and never the reverse order
InnerTupleSameOrder(d, c, k) ==
    LET a == combinations(d)[c][1]
        b == combinations(d)[c][2]
    IN  [s1 |-> d[a][2], n1 |-> d[a][1], s2 |-> d[b][2], n2 |-> d[b][1]]

\* the tuple (s1, n1, s2, n2) the inner loop takes at position (c, k):
\* both orders of the combination, the given one first
InnerTuple(d, c, k) ==
    LET a == combinations(d)[c][1]
        b == combinations(d)[c][2]
    IN  IF k = 0 THEN [s1 |-> d[a][2], n1 |-> d[a][1], s2 |-> d[b][2], n2 |-> d[b][1]]
        ELSE [s1 |-> d[b][2], n1 |-> d[b][1], s2 |-> d[a][2], n2 |-> d[a][1]]

\* f"{n1}-{n2}"
PairId(n1, n2) == n1 \o <<"-">> \o n2

\* the tuple appended to metrics_list
MetricsRow(t, r) ==
    <<PairId(t.n1, t.n2), r.str_len1, r.str_len2, r.lcs_len, r.total_ops, r.char_comps>>

\* the block of file.write calls of one pair
ReportBlock(t, r) ==
    [name1 |-> t.n1, seq1 |-> t.s1, len1 |-> r.str_len1,
     name2 |-> t.n2, seq2 |-> t.s2, len2 |-> r.str_len2,
     lcs |-> r.lcs_string, lcs_len |-> r.lcs_len,
     total_ops |-> r.total_ops, char_comps |-> r.char_comps]

\* the header row written by write_runtime_metrics_to_csv
CsvHeader == <<"pair_id", "str1_len", "str2_len", "lcs_len", "tot_ops", "char_comps">>

EngineIdle ==
    /\ X = <<>>
    /\ Y = <<>>
    /\ L = ZeroTable(0, 0)
    /\ total_operations = 0
    /\ char_comparisons = 0
    /\ fi = 0
    /\ fj = 0
    /\ i = 0
    /\ j = 0
    /\ lcs_str = <<>>
    /\ lcs_string = <<>>
    /\ pc = "idle"

\* the state on entry to write_output(filename, strings)
WriterInit ==
    /\ strings \in UNION {Mappings(n) : n \in 0..MaxNames}
    /\ oom \in {f \in SUBSET OrderedPairs(strings) : Cardinality(f) <= MaxFailures}
    /\ combo = 0
    /\ dir = 0
    /\ metrics_list = <<>>
    /\ file = [exists |-> FALSE, blocks |-> <<>>]
    /\ csv_file = <<>>
    /\ wpc = "start"
    /\ EngineIdle
    /\ ReaderIdle
    /\ MainIdle

\* metrics_list = []; open(filename, "w"); the outer loop takes its first combination
OpenReport ==
    /\ wpc = "start"
    /\ metrics_list' = <<>>
    /\ file' = [exists |-> TRUE, blocks |-> <<>>]
    /\ combo' = 1
    /\ dir' = 0
    /\ wpc' = "loop"
    /\ UNCHANGED <<strings, oom, csv_file>>
    /\ UNCHANGED engVars
    /\ UNCHANGED <<rdVars, mnVars>>

\* the body of the inner loop when calculate_lcs_for_pair returns
PairDone(t) ==
    LET r == calculate_lcs_for_pair(t.s1, t.s2)
    IN  /\ metrics_list' = Append(metrics_list, MetricsRow(t, r))
        /\ file' = [file EXCEPT !.blocks = Append(@, ReportBlock(t, r))]

\* the metrics row is appended before the engine is called, so a failing pair
\* leaves a row behind
PairOutOfMemoryKeepsRow(t) ==
    /\ metrics_list' = Append(metrics_list,
                              <<PairId(t.n1, t.n2), Len(t.s1), Len(t.s2), 0, 0, 0>>)
    /\ file' = file

\* the body of the inner loop when lcs_length raises MemoryError: except, continue
PairOutOfMemory(t) ==
    /\ metrics_list' = metrics_list
    /\ file' = file

\* one iteration of the inner loop
ProcessPair ==
    /\ wpc = "loop"
    /\ combo <= Len(combinations(strings))
    /\ LET t == InnerTuple(strings, combo, dir)
       IN  IF <<t.n1, t.n2>> \in oom THEN PairOutOfMemory(t) ELSE PairDone(t)
    /\ IF dir = 0 THEN combo' = combo /\ dir' = 1
                  ELSE combo' = combo + 1 /\ dir' = 0
    /\ UNCHANGED <<strings, oom, csv_file, wpc>>
    /\ UNCHANGED engVars
    /\ UNCHANGED <<rdVars, mnVars>>

\* the loops are over: write_runtime_metrics_to_csv('metrics/runtime_metrics.csv', metrics_list)
WriteMetrics ==
    /\ wpc = "loop"
    /\ combo > Len(combinations(strings))
    /\ csv_file' = Append(csv_file, [header |-> CsvHeader, rows |-> metrics_list])
    /\ wpc' = "written"
    /\ UNCHANGED <<strings, oom, combo, dir, metrics_list, file>>
    /\ UNCHANGED engVars
    /\ UNCHANGED <<rdVars, mnVars>>

\* the with block closes the report and write_output returns
CloseReport ==
    /\ wpc = "written"
    /\ wpc' = "returned"
    /\ UNCHANGED <<strings, oom, combo, dir, metrics_list, file, csv_file>>
    /\ UNCHANGED engVars
    /\ UNCHANGED <<rdVars, mnVars>>

WriterNext ==
    \/ OpenReport
    \/ ProcessPair
    \/ WriteMetrics
    \/ CloseReport

WriterSpec == WriterInit /\ [][WriterNext]_vars

----------------------------------------------------------------------------
(* Reference notions the properties are stated with *)

\* the set of all subsequences of s
RECURSIVE Subsequences(_)
Subsequences(s) ==
    IF s = <<>> THEN {<<>>}
    ELSE LET rest == Subsequences(Tail(s))
         IN  rest \cup {<<Head(s)>> \o t : t \in rest}

\* whether s occurs in t in order, possibly with gaps (leftmost embedding)
RECURSIVE IsSubsequence(_, _)
IsSubsequence(s, t) ==
    IF s = <<>> THEN TRUE
    ELSE IF t = <<>> THEN FALSE
    ELSE IF Head(s) = Head(t) THEN IsSubsequence(Tail(s), Tail(t))
    ELSE IsSubsequence(s, Tail(t))

\* the length of a longest common subsequence: the maximum over all of them
RefLcsLen(x, y) ==
    LET common == Subsequences(x) \cap Subsequences(y)
    IN  CHOOSE n \in {Len(s) : s \in common} : \A s \in common : Len(s) <= n

Prefix(s, k) == SubSeq(s, 1, k)

min(a, b) == IF a <= b THEN a ELSE b

\* the cells (r, c), r, c >= 1, where the characters of x and y match
MatchingCells(x, y) ==
    {q \in (1..Len(x)) \X (1..Len(y)) : x[q[1]] = y[q[2]]}

\* the cells the loops of lcs_length have visited before reaching (r, c)
VisitedBefore(q, r, c) == q[1] < r \/ (q[1] = r /\ q[2] < c)

\* lcs_length has returned
Filled == pc \in {"backtrace", "done"}

----------------------------------------------------------------------------
(* The engine: properties of Spec *)

\* C1: the table lcs_length returns is (len(X)+1) x (len(Y)+1) and every cell
\* L[r][c] is the length of a longest common subsequence of the prefixes
\* X[0..r) and Y[0..c), the maximum over all common subsequences; row 0 and
\* column 0 are zero, and the table is all zero when either input is empty.
C1_TableIsLcsOfPrefixes ==
    Filled =>
        /\ DOMAIN L = 0..Len(X)
        /\ \A r \in 0..Len(X) :
            /\ DOMAIN L[r] = 0..Len(Y)
            /\ \A c \in 0..Len(Y) :
                /\ L[r][c] = RefLcsLen(Prefix(X, r), Prefix(Y, c))
                /\ (r = 0 \/ c = 0) => L[r][c] = 0
                /\ (X = <<>> \/ Y = <<>>) => L[r][c] = 0

C1_Witness ==
    /\ pc = "done"
    /\ Len(X) = 3
    /\ Len(Y) = 2
    /\ X # Y
    /\ L[3][2] = 2
    /\ L[2][2] = 1

\* C2: the string reconstruct_lcs returns has length L[len(X)][len(Y)].
C2_LengthIsLastCell ==
    pc = "done" => Len(lcs_string) = L[Len(X)][Len(Y)]

C2_Witness ==
    /\ pc = "done"
    /\ Len(lcs_string) = 2
    /\ Len(X) = 3
    /\ Len(Y) = 3
    /\ L[3][3] = 2

\* C3: the string reconstruct_lcs returns is a subsequence of X and of Y.
C3_ResultIsCommonSubsequence ==
    pc = "done" => IsSubsequence(lcs_string, X) /\ IsSubsequence(lcs_string, Y)

C3_Witness ==
    /\ pc = "done"
    /\ Len(lcs_string) = 2
    /\ lcs_string[1] # lcs_string[2]
    /\ lcs_string # X
    /\ lcs_string # Y

\* C4: total_operations as returned is (len(X)+1)*(len(Y)+1): one increment
\* per visited cell, the border cells included; 4 for X empty and len(Y) = 3.
C4_TotalOpsIsTableSize ==
    /\ pc = "fill" => total_operations = fi * (Len(Y) + 1) + fj
    /\ Filled => total_operations = (Len(X) + 1) * (Len(Y) + 1)
    /\ (Filled /\ X = <<>> /\ Len(Y) = 3) => total_operations = 4

C4_Witness ==
    /\ pc = "backtrace"
    /\ X = <<>>
    /\ Len(Y) = 3
    /\ total_operations = 4

\* C5 as stated: char_comparisons as returned is at most min(len(X), len(Y)).
C5_Original ==
    Filled => char_comparisons <= min(Len(X), Len(Y))

\* C5, amended: char_comparisons as returned is at most len(X)*len(Y), the
\* number of cells off the border.
C5_CharComparisonsAtMostProduct ==
    Filled => char_comparisons <= Len(X) * Len(Y)

C5_Witness ==
    /\ pc = "done"
    /\ char_comparisons > min(Len(X), Len(Y))
    /\ char_comparisons = Len(X) * Len(Y)

\* C6: char_comparisons is the number of cells (r, c), 1 <= r <= len(X),
\* 1 <= c <= len(Y), with X[r-1] = Y[c-1]: at every point of the loops it is
\* the number of matching cells visited so far, so no border cell and no
\* mismatching cell is counted, and it is 0 when either input is empty.
C6_CharComparisonsCountsMatches ==
    /\ pc = "fill" =>
        char_comparisons =
            Cardinality({q \in MatchingCells(X, Y) : VisitedBefore(q, fi, fj)})
    /\ Filled => char_comparisons = Cardinality(MatchingCells(X, Y))
    /\ (Filled /\ (X = <<>> \/ Y = <<>>)) => char_comparisons = 0

C6_Witness ==
    /\ pc = "done"
    /\ char_comparisons = 2
    /\ Len(X) = 2
    /\ Len(Y) = 3
    /\ Len(lcs_string) = 1

\* C7: every step of the backtrace, taken at (i, j) with i > 0 and j > 0,
\* emits X[i-1] and moves to (i-1, j-1) when X[i-1] = Y[j-1]; otherwise
\* moves to (i-1, j) when L[i-1][j] > L[i][j-1] strictly, and to (i, j-1) in
\* every other case, ties included; only a match emits.
C7_TieBreak ==
    [][(pc = "backtrace" /\ pc' = "backtrace") =>
        /\ i > 0
        /\ j > 0
        /\ IF At(X, i - 1) = At(Y, j - 1)
           THEN /\ i' = i - 1
                /\ j' = j - 1
                /\ lcs_str' = Append(lcs_str, At(X, i - 1))
           ELSE IF L[i - 1][j] > L[i][j - 1]
           THEN /\ i' = i - 1
                /\ j' = j
                /\ lcs_str' = lcs_str
           ELSE /\ i' = i
                /\ j' = j - 1
                /\ lcs_str' = lcs_str]_vars

\* the first step of a backtrace met a tie between nonzero neighbours and
\* moved left
C7_Witness ==
    /\ pc = "backtrace"
    /\ Len(X) >= 2
    /\ Len(Y) >= 2
    /\ i = Len(X)
    /\ j = Len(Y) - 1
    /\ lcs_str = <<>>
    /\ At(X, Len(X) - 1) # At(Y, Len(Y) - 1)
    /\ L[Len(X) - 1][Len(Y)] = L[Len(X)][Len(Y) - 1]
    /\ L[Len(X)][Len(Y)] >= 1

\* C8: the last cell of the table of (X, Y) equals the last cell of the
\* table of (Y, X), and the strings reconstructed for the two orders have
\* the same length.
C8_LengthSymmetric ==
    pc = "done" =>
        LET rev == lcs_length(Y, X)
        IN  /\ L[Len(X)][Len(Y)] = rev.L[Len(Y)][Len(X)]
            /\ Len(lcs_string) = Len(reconstruct_lcs(rev.L, Y, X))

\* the two orders give different strings of the same length
C8_Witness ==
    /\ pc = "done"
    /\ lcs_string # reconstruct_lcs(lcs_length(Y, X).L, Y, X)
    /\ Len(lcs_string) = Len(reconstruct_lcs(lcs_length(Y, X).L, Y, X))
    /\ Len(lcs_string) >= 1

----------------------------------------------------------------------------
(* The report writer: properties of WriterSpec *)

\* the sequence stored under name n in mapping d
ValueOf(d, n) == d[CHOOSE k \in 1..Len(d) : d[k][1] = n][2]

\* write_runtime_metrics_to_csv has been called
MetricsWritten == wpc \in {"written", "returned"}

\* the report block of the ordered pair p of names, from an engine
\* invocation of its own
ExpectedBlock(d, p) ==
    LET v1 == ValueOf(d, p[1])
        v2 == ValueOf(d, p[2])
        e == calculate_lcs_for_pair(v1, v2)
    IN  [name1 |-> p[1], seq1 |-> v1, len1 |-> Len(v1),
         name2 |-> p[2], seq2 |-> v2, len2 |-> Len(v2),
         lcs |-> e.lcs_string, lcs_len |-> e.lcs_len,
         total_ops |-> e.total_ops, char_comps |-> e.char_comps]

\* the metrics row that goes with a report block
RowOf(blk) ==
    <<PairId(blk.name1, blk.name2), blk.len1, blk.len2,
      blk.lcs_len, blk.total_ops, blk.char_comps>>

\* rows and blocks hold exactly one entry for every pair of P, the expected
\* one, and nothing else
RecordsExactly(rows, blocks, d, P) ==
    /\ Len(rows) = Cardinality(P)
    /\ Len(blocks) = Cardinality(P)
    /\ \A p \in P :
        LET blk == ExpectedBlock(d, p)
            row == RowOf(blk)
        IN  /\ \E k \in 1..Len(rows) :
                /\ rows[k] = row
                /\ \A k2 \in 1..Len(rows) : rows[k2][1] = row[1] => k2 = k
            /\ \E k \in 1..Len(blocks) :
                /\ blocks[k] = blk
                /\ \A k2 \in 1..Len(blocks) :
                    (blocks[k2].name1 = p[1] /\ blocks[k2].name2 = p[2]) => k2 = k
    /\ \A k \in 1..Len(d) :
        \A r \in 1..Len(rows) : rows[r][1] # PairId(d[k][1], d[k][1])
    /\ \A b \in 1..Len(blocks) : blocks[b].name1 # blocks[b].name2

\* C9: with N named sequences and no failing pair, the metrics list handed to
\* the metrics table and the report each hold exactly one entry per ordered
\* pair (A, B), A # B: N*(N-1) entries, none with A = B; the entry of (A, B)
\* carries "A-B", the two lengths in that order and the result of an engine
\* invocation on (seqA, seqB); the table is written once, after the last pair.
C9_OneEntryPerOrderedPair ==
    oom = {} =>
        /\ wpc \in {"start", "loop"} => csv_file = <<>>
        /\ MetricsWritten =>
            /\ Len(csv_file) = 1
            /\ combo > Len(combinations(strings))
            /\ csv_file[1].rows = metrics_list
            /\ Len(metrics_list) = Len(strings) * (Len(strings) - 1)
            /\ RecordsExactly(csv_file[1].rows, file.blocks, strings,
                              OrderedPairs(strings))

C9_Witness ==
    /\ wpc = "returned"
    /\ oom = {}
    /\ Len(strings) = 3
    /\ Len(csv_file) = 1
    /\ Len(csv_file[1].rows) = 6
    /\ Len(file.blocks) = 6

\* C10: a pair whose table construction raises MemoryError contributes no
\* metrics row and no report block, whole or partial; every other ordered
\* pair, before and after it, the reverse order of the same names included,
\* is recorded, and the metrics table is still written at the end.
C10_FailingPairSkipped ==
    /\ wpc = "loop" =>
        /\ Len(metrics_list) = Len(file.blocks)
        /\ \A p \in oom :
            /\ \A r \in 1..Len(metrics_list) : metrics_list[r][1] # PairId(p[1], p[2])
            /\ \A b \in 1..Len(file.blocks) :
                ~(file.blocks[b].name1 = p[1] /\ file.blocks[b].name2 = p[2])
    /\ MetricsWritten =>
        /\ Len(csv_file) = 1
        /\ csv_file[1].rows = metrics_list
        /\ RecordsExactly(csv_file[1].rows, file.blocks, strings,
                          OrderedPairs(strings) \ oom)

\* a pair in the middle of the run failed, its reverse order did not, and
\* the table was written without it
C10_Witness ==
    /\ wpc = "returned"
    /\ Len(strings) = 3
    /\ oom = {<<strings[1][1], strings[3][1]>>}
    /\ Len(csv_file) = 1
    /\ Len(csv_file[1].rows) = 5
    /\ Len(file.blocks) = 5
    /\ \E r \in 1..5 : csv_file[1].rows[r][1] = PairId(strings[3][1], strings[1][1])
    /\ csv_file[1].rows[5][1] = PairId(strings[3][1], strings[2][1])

----------------------------------------------------------------------------
(* The backtrace: further properties of the engine *)

\* reconstruct_lcs is running or has returned
Backtracing == pc \in {"backtrace", "done"}

\* the number of iterations the while loop has performed: every iteration
\* lowers i + j + len(lcs_str) by exactly one (C14 checks that it does)
BacktraceSteps == (Len(X) + Len(Y)) - (i + j) - Len(lcs_str)

\* C14: the backtrace started at (len(X), len(Y)) terminates, after at most
\* len(X)+len(Y) iterations, with i = 0 or j = 0; every iteration strictly
\* decreases i+j, no index becomes negative, and no iteration is performed
\* once i = 0 or j = 0 (none at all when an input is empty).
C14_BacktraceTerminates ==
    /\ [](Backtracing =>
            /\ i >= 0
            /\ j >= 0
            /\ BacktraceSteps >= 0
            /\ BacktraceSteps <= Len(X) + Len(Y))
    /\ [](pc = "done" =>
            /\ i = 0 \/ j = 0
            /\ (X = <<>> \/ Y = <<>>) => BacktraceSteps = 0)
    /\ [][(pc = "fill" /\ pc' = "backtrace") =>
            /\ i' = Len(X)
            /\ j' = Len(Y)
            /\ BacktraceSteps' = 0]_vars
    /\ [][(pc = "backtrace" /\ pc' = "backtrace") =>
            /\ i > 0
            /\ j > 0
            /\ i' + j' < i + j
            /\ BacktraceSteps' = BacktraceSteps + 1]_vars
    /\ [][(pc = "backtrace" /\ pc' = "done") =>
            /\ i = 0 \/ j = 0
            /\ i' = i
            /\ j' = j]_vars
    /\ <>(pc = "done")

\* a backtrace of three iterations that emitted nothing ended at column 0
C14_Witness ==
    /\ pc = "done"
    /\ Len(X) = 3
    /\ Len(Y) = 3
    /\ i = 3
    /\ j = 0
    /\ lcs_str = <<>>
    /\ BacktraceSteps = 3

\* C15: in every state of the backtrace the number of characters emitted so
\* far plus L[i][j] equals L[len(X)][len(Y)]; a move up or left never lowers
\* the table value, an emitting diagonal move lowers it by exactly one, and
\* the backtrace leaves L, X and Y unchanged.
C15_EmittedPlusCell ==
    /\ [](Backtracing => Len(lcs_str) + L[i][j] = L[Len(X)][Len(Y)])
    /\ [](Backtracing => L = lcs_length(X, Y).L)
    /\ [][pc = "backtrace" =>
            /\ L' = L
            /\ X' = X
            /\ Y' = Y
            /\ pc' = "backtrace" =>
                IF Len(lcs_str') = Len(lcs_str) + 1
                THEN L[i'][j'] = L[i][j] - 1
                ELSE /\ lcs_str' = lcs_str
                     /\ L[i'][j'] >= L[i][j]]_vars

\* mid-walk: one character emitted, one still to come, after a move that
\* emitted nothing
C15_Witness ==
    /\ pc = "backtrace"
    /\ Len(lcs_str) = 1
    /\ L[i][j] = 1
    /\ L[Len(X)][Len(Y)] = 2
    /\ BacktraceSteps = 2

----------------------------------------------------------------------------
(* read_input.py: the strings of Python it uses *)

\* str.isspace() of one character
Whitespace == {" ", "\n", "\t"}

\* str.isalnum() of one character
Alphanumeric == {"k", "v", "1", "2", "3"}

\* s.strip(): leading and trailing whitespace removed
RECURSIVE strip(_)
strip(s) ==
    IF s = <<>> THEN s
    ELSE IF Head(s) \in Whitespace THEN strip(Tail(s))
    ELSE IF s[Len(s)] \in Whitespace THEN strip(SubSeq(s, 1, Len(s) - 1))
    ELSE s

\* s.isalnum(): non-empty and every character alphanumeric
isalnum(s) == s # <<>> /\ \A k \in 1..Len(s) : s[k] \in Alphanumeric

\* s.split('=', 1): the parts before and after the first '=', or s alone
split(s) ==
    IF \E k \in 1..Len(s) : s[k] = "="
    THEN LET p == CHOOSE k \in 1..Len(s) :
                    s[k] = "=" /\ \A q \in 1..(k - 1) : s[q] # "="
         IN  <<SubSeq(s, 1, p - 1), SubSeq(s, p + 1, Len(s))>>
    ELSE <<s>>

----------------------------------------------------------------------------
(* read_input.py: is_valid_string and read_strings *)

\* is_valid_string(line): the tuple (is_valid, error_msg)
is_valid_string(line) ==
    LET parts == split(line)
    IN  IF Len(parts) # 2
        THEN <<FALSE, "Line must contain a key and a value separated by '='.">>
        ELSE IF strip(parts[1]) = <<>>
        THEN <<FALSE, "Key part is missing.">>
        ELSE IF strip(parts[2]) = <<>>
        THEN <<FALSE, "Value part is missing.">>
        ELSE IF ~(isalnum(strip(parts[1])) /\ isalnum(strip(parts[2])))
        THEN <<FALSE, "Both key and value must be alphanumeric.">>
        ELSE <<TRUE, "">>

\* key in strings
HasKey(d, key) == \E k \in 1..Len(d) : d[k][1] = key

NoError == [kind |-> "none", key |-> <<>>, line |-> 0]

\* strings = {}; the loop is about to take line 1
ReadStart == [strings |-> <<>>, line_number |-> 1, error |-> NoError, raised |-> FALSE]

\* the duplicate test is forgotten: strings[key] = value overwrites the
\* value stored under the key
ReadLineOverwrites(r, line) ==
    IF ~is_valid_string(line)[1]
    THEN [r EXCEPT !.line_number = r.line_number + 1]
    ELSE LET key == strip(split(line)[1])
             value == strip(split(line)[2])
         IN  IF HasKey(r.strings, key)
             THEN [r EXCEPT !.strings =
                                [k \in 1..Len(r.strings) |->
                                    IF r.strings[k][1] = key THEN <<key, value>>
                                    ELSE r.strings[k]],
                            !.line_number = r.line_number + 1]
             ELSE [r EXCEPT !.strings = Append(r.strings, <<key, value>>),
                            !.line_number = r.line_number + 1]

\* an invalid line raises instead of being skipped
ReadLineInvalidFatal(r, line) ==
    IF ~is_valid_string(line)[1]
    THEN [r EXCEPT !.error = [kind |-> "invalid", key |-> <<>>,
                              line |-> r.line_number],
                   !.raised = TRUE]
    ELSE LET key == strip(split(line)[1])
             value == strip(split(line)[2])
         IN  IF HasKey(r.strings, key)
             THEN [r EXCEPT !.error = [kind |-> "duplicate", key |-> key,
                                       line |-> r.line_number],
                            !.raised = TRUE]
             ELSE [r EXCEPT !.strings = Append(r.strings, <<key, value>>),
                            !.line_number = r.line_number + 1]

\* one iteration of the loop of read_strings, on the line numbered
\* r.line_number: skip it, raise on a duplicate key, or store it
ReadLine(r, line) ==
    IF ~is_valid_string(line)[1]
    THEN [r EXCEPT !.line_number = r.line_number + 1]
    ELSE LET key == strip(split(line)[1])
             value == strip(split(line)[2])
         IN  IF HasKey(r.strings, key)
             THEN [r EXCEPT !.error = [kind |-> "duplicate", key |-> key,
                                       line |-> r.line_number],
                            !.raised = TRUE]
             ELSE [r EXCEPT !.strings = Append(r.strings, <<key, value>>),
                            !.line_number = r.line_number + 1]

\* after the loop: fewer than two entries raise, otherwise strings is returned
ReadEnd(r) ==
    IF Len(r.strings) < 2
    THEN [r EXCEPT !.error = [kind |-> "insufficient", key |-> <<>>, line |-> 0],
                   !.raised = TRUE]
    ELSE r

\* read_strings(file) as a whole: the loop over the lines, then the test
RECURSIVE ReadFrom(_, _)
ReadFrom(r, ls) ==
    IF r.raised THEN r
    ELSE IF r.line_number > Len(ls) THEN ReadEnd(r)
    ELSE ReadFrom(ReadLine(r, ls[r.line_number]), ls)

read_strings(ls) == ReadFrom(ReadStart, ls)

\* the lines the input files are made of
LinePool == {
    <<"k", "1", "=", "v", "1", "\n">>,    \* a valid line
    <<"k", "1", "=", "v", "2", "\n">>,    \* the same key again, with another value
    <<" ", "k", "1", " ", "=", " ", "v", "3", " ", "\n">>,    \* the same key once trimmed
    <<"k", "2", "=", "v", "1", "\n">>,    \* a second key
    <<"k", "3", "=", "v", "2">>,    \* a third key, last line of a file without a newline
    <<"=", "v", "1", "\n">>,    \* key part missing
    <<"k", "3", "=", " ", "\n">>,    \* value part missing
    <<"k", "3", "\n">>,    \* no '='
    <<"k", "!", "=", "v", "1", "\n">>,    \* key not alphanumeric
    <<"k", "3", "=", "v", "=", "1", "\n">>,    \* split at the first '=' only: the value is not alphanumeric
    <<"\n">>     \* blank line
}

MaxLines == 3

\* the files of at most MaxLines lines: iterating a file gives lines that end
\* with a newline, except possibly the last
InputFiles ==
    {f \in SeqsUpTo(LinePool, MaxLines) :
        \A k \in 1..(Len(f) - 1) : f[k][Len(f[k])] = "\n"}

\* the state on entry to the loop of read_strings(file)
ReaderInit ==
    /\ lines \in InputFiles
    /\ line_number = ReadStart.line_number
    /\ rstrings = ReadStart.strings
    /\ error = ReadStart.error
    /\ rpc = "reading"
    /\ EngineIdle
    /\ WriterIdle
    /\ MainIdle

\* the reader's variables after r
ReaderBecomes(r) ==
    /\ rstrings' = r.strings
    /\ line_number' = r.line_number
    /\ error' = r.error

ReaderState == [strings |-> rstrings, line_number |-> line_number,
                error |-> error, raised |-> FALSE]

\* one iteration of the loop that ends with continue or at the end of the body
NextLine ==
    /\ rpc = "reading"
    /\ line_number <= Len(lines)
    /\ ~ReadLine(ReaderState, lines[line_number]).raised
    /\ ReaderBecomes(ReadLine(ReaderState, lines[line_number]))
    /\ UNCHANGED <<lines, rpc>>
    /\ UNCHANGED <<engVars, wrVars, mnVars>>

\* the iteration that raises ValueError("Duplicate key ...")
RaiseDuplicateKey ==
    /\ rpc = "reading"
    /\ line_number <= Len(lines)
    /\ ReadLine(ReaderState, lines[line_number]).raised
    /\ ReaderBecomes(ReadLine(ReaderState, lines[line_number]))
    /\ rpc' = "raised"
    /\ UNCHANGED lines
    /\ UNCHANGED <<engVars, wrVars, mnVars>>

\* the loop is over with fewer than two entries: ValueError("At least two ...")
RaiseInsufficientData ==
    /\ rpc = "reading"
    /\ line_number > Len(lines)
    /\ ReadEnd(ReaderState).raised
    /\ ReaderBecomes(ReadEnd(ReaderState))
    /\ rpc' = "raised"
    /\ UNCHANGED lines
    /\ UNCHANGED <<engVars, wrVars, mnVars>>

\* the loop is over: return strings
ReturnStrings ==
    /\ rpc = "reading"
    /\ line_number > Len(lines)
    /\ ~ReadEnd(ReaderState).raised
    /\ ReaderBecomes(ReadEnd(ReaderState))
    /\ rpc' = "returned"
    /\ UNCHANGED lines
    /\ UNCHANGED <<engVars, wrVars, mnVars>>

ReaderNext ==
    \/ NextLine
    \/ RaiseDuplicateKey
    \/ RaiseInsufficientData
    \/ ReturnStrings

ReaderSpec == ReaderInit /\ [][ReaderNext]_vars

----------------------------------------------------------------------------
(* The input loader: properties of ReaderSpec *)

\* s without its leading and trailing whitespace: from its first to its
\* last character that is not whitespace
Trimmed(s) ==
    LET solid == {k \in 1..Len(s) : s[k] \notin Whitespace}
    IN  IF solid = {} THEN <<>>
        ELSE SubSeq(s, CHOOSE k \in solid : \A q \in solid : k <= q,
                       CHOOSE k \in solid : \A q \in solid : q <= k)

\* the text before and after the first '=' of a line that has one
KeyPart(line) ==
    SubSeq(line, 1, (CHOOSE k \in 1..Len(line) :
                        line[k] = "=" /\ \A q \in 1..(k - 1) : line[q] # "=") - 1)

ValuePart(line) ==
    SubSeq(line, (CHOOSE k \in 1..Len(line) :
                        line[k] = "=" /\ \A q \in 1..(k - 1) : line[q] # "=") + 1,
           Len(line))

AllAlphanumeric(s) == \A k \in 1..Len(s) : s[k] \in Alphanumeric

\* a malformed line: no '=', or a key or a value that is empty after
\* trimming or not alphanumeric
Malformed(line) ==
    \/ \A k \in 1..Len(line) : line[k] # "="
    \/ Trimmed(KeyPart(line)) = <<>>
    \/ Trimmed(ValuePart(line)) = <<>>
    \/ ~AllAlphanumeric(Trimmed(KeyPart(line)))
    \/ ~AllAlphanumeric(Trimmed(ValuePart(line)))

WellFormedLine(line) == ~Malformed(line)

\* line n is a valid line whose trimmed key an earlier valid line has
RepeatsKey(ls, n) ==
    /\ WellFormedLine(ls[n])
    /\ \E m \in 1..(n - 1) :
        /\ WellFormedLine(ls[m])
        /\ Trimmed(KeyPart(ls[m])) = Trimmed(KeyPart(ls[n]))

\* the reader is at a line, about to process it
AtLine == rpc = "reading" /\ line_number <= Len(lines)

\* C12: read_strings raises the duplicate-key error as soon as it reads a
\* valid line whose trimmed key an earlier valid line stored: the read stops
\* at that line, no later line is processed, nothing is returned, and a stored
\* value is never overwritten, whatever follows and however many entries
\* there are.
C12_DuplicateKeyAborts ==
    /\ [][(AtLine /\ WellFormedLine(lines[line_number])
                  /\ HasKey(rstrings, Trimmed(KeyPart(lines[line_number])))) =>
            /\ rpc' = "raised"
            /\ error'.kind = "duplicate"
            /\ error'.key = Trimmed(KeyPart(lines[line_number]))
            /\ error'.line = line_number
            /\ line_number' = line_number
            /\ rstrings' = rstrings]_vars
    /\ [][rpc # "raised"]_vars
    /\ [][\A k \in 1..Len(rstrings) :
            Len(rstrings') >= k /\ rstrings'[k] = rstrings[k]]_vars
    /\ [](rpc = "raised" /\ error.kind = "duplicate" =>
            /\ RepeatsKey(lines, line_number)
            /\ \A n \in 1..(line_number - 1) : ~RepeatsKey(lines, n))
    /\ [](rpc \in {"returned", "raised"} /\ (\E n \in 1..Len(lines) : RepeatsKey(lines, n)) =>
            rpc = "raised" /\ error.kind = "duplicate")

\* "k1=v1" then the same key with another value, then a valid line that is
\* never read
C12_Witness ==
    /\ rpc = "raised"
    /\ error.kind = "duplicate"
    /\ Len(lines) = 3
    /\ line_number = 2
    /\ WellFormedLine(lines[3])
    /\ Len(rstrings) = 1
    /\ rstrings[1][2] # Trimmed(ValuePart(lines[2]))

\* C13: a malformed line is never fatal and changes nothing: read_strings
\* returns the same mapping, or raises the same kind of error (duplicate key,
\* fewer than 2 valid entries), as on the input with the malformed lines
\* removed; keys and values of a returned mapping are trimmed, non-empty and
\* alphanumeric, and a returned mapping has at least 2 entries.
C13_MalformedLinesSkipped ==
    /\ [][(AtLine /\ Malformed(lines[line_number])) =>
            /\ rpc' = "reading"
            /\ line_number' = line_number + 1
            /\ rstrings' = rstrings
            /\ error' = error]_vars
    /\ [](rpc \in {"returned", "raised"} =>
            LET clean == read_strings(SelectSeq(lines, WellFormedLine))
            IN  /\ (rpc = "raised") = clean.raised
                /\ rpc = "returned" => rstrings = clean.strings
                /\ rpc = "raised" =>
                    /\ error.kind \in {"duplicate", "insufficient"}
                    /\ error.kind = clean.error.kind
                    /\ error.key = clean.error.key)
    /\ [](rpc = "returned" =>
            /\ Len(rstrings) >= 2
            /\ \A k \in 1..Len(rstrings) : \A f \in 1..2 :
                /\ rstrings[k][f] # <<>>
                /\ Trimmed(rstrings[k][f]) = rstrings[k][f]
                /\ AllAlphanumeric(rstrings[k][f]))

\* a malformed line between two valid ones was skipped, and a key and a
\* value were stored trimmed
C13_Witness ==
    /\ rpc = "returned"
    /\ Len(lines) = 3
    /\ Malformed(lines[2])
    /\ Len(rstrings) = 2
    /\ Trimmed(lines[1]) # KeyPart(lines[1]) \o <<"=">> \o ValuePart(lines[1])
    /\ lines[1][1] = " "

----------------------------------------------------------------------------
(* __main__.py: main, with read_input and write_output as it calls them *)

\* the state after the arguments are parsed: the report and the metrics table
\* do not exist yet
MainInit ==
    /\ lines \in InputFiles
    /\ line_number = 0
    /\ rstrings = <<>>
    /\ error = NoError
    /\ rpc = "idle"
    /\ plot \in BOOLEAN
    /\ mpc = "start"
    /\ exit_status = -1
    /\ EngineIdle
    /\ WriterIdle

\* sys.exit(1), sys.exit("Error: ..."): the process ends with status 1
ExitFailure ==
    /\ mpc' = "exited"
    /\ exit_status' = 1
    /\ UNCHANGED plot

\* check_io_errors: the input path is no file: sys.exit(1)
InputNotFound ==
    /\ mpc = "start"
    /\ ExitFailure
    /\ UNCHANGED <<engVars, wrVars, rdVars>>

\* check_io_errors: the output directory is missing and mkdir raises: sys.exit(1)
OutputDirUncreatable ==
    /\ mpc = "start"
    /\ ExitFailure
    /\ UNCHANGED <<engVars, wrVars, rdVars>>

\* check_io_errors returns
IoChecked ==
    /\ mpc = "start"
    /\ mpc' = "read"
    /\ UNCHANGED <<plot, exit_status>>
    /\ UNCHANGED <<engVars, wrVars, rdVars>>

\* read_input: open(filename, "r") raises; the exception is logged, None is
\* returned, and main leaves with sys.exit("Error: No valid strings ...")
InputUnreadable ==
    /\ mpc = "read"
    /\ ExitFailure
    /\ UNCHANGED <<engVars, wrVars, rdVars>>

\* read_input: the file is open and read_strings(file) is called
CallReadStrings ==
    /\ mpc = "read"
    /\ line_number' = ReadStart.line_number
    /\ rstrings' = ReadStart.strings
    /\ error' = ReadStart.error
    /\ rpc' = "reading"
    /\ mpc' = "reading"
    /\ UNCHANGED <<lines, plot, exit_status>>
    /\ UNCHANGED <<engVars, wrVars>>

\* read_strings raised: read_input logs it and returns None, and main leaves
\* with sys.exit("Error: No valid strings ...")
NoValidStrings ==
    /\ mpc = "reading"
    /\ rpc = "raised"
    /\ ExitFailure
    /\ UNCHANGED <<engVars, wrVars, rdVars>>

\* read_strings returned the mapping: write_output(args.out_file, strings)
CallWriteOutput ==
    /\ mpc = "reading"
    /\ rpc = "returned"
    /\ strings' = rstrings
    /\ wpc' = "start"
    /\ mpc' = "write"
    /\ UNCHANGED <<oom, combo, dir, metrics_list, file, csv_file>>
    /\ UNCHANGED <<plot, exit_status>>
    /\ UNCHANGED <<engVars, rdVars>>

\* write_output: open(filename, "w") raises FileNotFoundError or
\* PermissionError: nothing is created
OpenReportFails ==
    /\ mpc = "write"
    /\ wpc = "start"
    /\ wpc' = "raised"
    /\ UNCHANGED <<strings, oom, combo, dir, metrics_list, file, csv_file>>
    /\ UNCHANGED <<engVars, rdVars, mnVars>>

\* write_output: the loops are over and the open(metrics_filename, 'w') of
\* write_runtime_metrics_to_csv raises FileNotFoundError (no metrics
\* directory: main creates it only later, and only for the plot) or
\* PermissionError; the with block closes the report on the way out
WriteMetricsFails ==
    /\ mpc = "write"
    /\ wpc = "loop"
    /\ combo > Len(combinations(strings))
    /\ wpc' = "raised"
    /\ UNCHANGED <<strings, oom, combo, dir, metrics_list, file, csv_file>>
    /\ UNCHANGED <<engVars, rdVars, mnVars>>

\* except (FileNotFoundError, PermissionError, ValueError): sys.exit(1)
WriteOutputRaised ==
    /\ mpc = "write"
    /\ wpc = "raised"
    /\ ExitFailure
    /\ UNCHANGED <<engVars, wrVars, rdVars>>

\* write_output returned: the completion message; without --plot main returns
WriteOutputReturned ==
    /\ mpc = "write"
    /\ wpc = "returned"
    /\ IF plot THEN mpc' = "plot" /\ exit_status' = exit_status
               ELSE mpc' = "exited" /\ exit_status' = 0
    /\ UNCHANGED plot
    /\ UNCHANGED <<engVars, wrVars, rdVars>>

\* the plot stage ends: plot_metrics reads the metrics table and writes the
\* image and its own two tables
PlotDone ==
    /\ mpc = "plot"
    /\ mpc' = "exited"
    /\ exit_status' = 0
    /\ UNCHANGED plot
    /\ UNCHANGED <<engVars, wrVars, rdVars>>

\* the plot stage raises (the image or one of its tables cannot be written)
PlotFails ==
    /\ mpc = "plot"
    /\ ExitFailure
    /\ UNCHANGED <<engVars, wrVars, rdVars>>

MainNext ==
    \/ InputNotFound
    \/ OutputDirUncreatable
    \/ IoChecked
    \/ InputUnreadable
    \/ CallReadStrings
    \/ NextLine
    \/ RaiseDuplicateKey
    \/ RaiseInsufficientData
    \/ ReturnStrings
    \/ NoValidStrings
    \/ CallWriteOutput
    \/ OpenReport
    \/ OpenReportFails
    \/ ProcessPair
    \/ WriteMetrics
    \/ WriteMetricsFails
    \/ CloseReport
    \/ WriteOutputRaised
    \/ WriteOutputReturned
    \/ PlotDone
    \/ PlotFails

MainSpec == MainInit /\ [][MainNext]_vars

----------------------------------------------------------------------------
(* The driver: properties of MainSpec *)

\* the report holds a block for every ordered pair of names
ReportComplete ==
    /\ file.exists
    /\ Len(file.blocks) = Cardinality(OrderedPairs(strings))

\* the metrics table was written, with a row for every ordered pair
MetricsTableComplete ==
    /\ Len(csv_file) = 1
    /\ Len(csv_file[1].rows) = Cardinality(OrderedPairs(strings))

\* neither output file was created
NoOutput ==
    /\ ~file.exists
    /\ csv_file = <<>>

\* C11: when a run of main ends with exit status 1, either the report and
\* the metrics table were both written completely or neither file was
\* created or modified, wherever the fatal error was raised.
C11_AllOrNothing ==
    (mpc = "exited" /\ exit_status = 1) =>
        \/ ReportComplete /\ MetricsTableComplete
        \/ NoOutput

====
